---- MODULE Spec2Model ----
(***************************************************************************)
(* A model of the ruma_api! endpoint compiler: the classification of the   *)
(* request and response fields, the validation done by Api::try_from, the  *)
(* checks and the code generation of Api::to_tokens, and the four          *)
(* conversions the generated code performs at run time.                    *)
(*                                                                         *)
(* Strings the code inspects character by character (the path template,    *)
(* field identifiers, field values, URL paths and query strings) are       *)
(* sequences of one-character strings.  Attribute words and header names   *)
(* are only compared for equality and are TLA+ strings.                    *)
(***************************************************************************)
EXTENDS Naturals, Sequences, FiniteSets, TLC

\* ------------------------------------------------------------------ bounds

\* Largest number of fields of a request or response section.
MaxFields == 2
\* Largest number of attributes written in one section, over all its fields.
MaxAttrs == 2
\* Largest number of segments of a path template.
MaxSegs == 2

\* ------------------------------------------------------- string utilities

\* str::starts_with(char)
StartsWith(s, c) == Len(s) > 0 /\ s[1] = c

\* &s[1..]
Tail1(s) == SubSeq(s, 2, Len(s))

\* s.chars().filter(|x| *x == c).count()
RECURSIVE CountChar(_, _)
CountChar(s, c) ==
    IF s = <<>> THEN 0
    ELSE (IF Head(s) = c THEN 1 ELSE 0) + CountChar(Tail(s), c)

\* Index of the first occurrence of c in s, or 0.
RECURSIVE IndexFrom(_, _, _)
IndexFrom(s, c, i) ==
    IF i > Len(s) THEN 0
    ELSE IF s[i] = c THEN i
    ELSE IndexFrom(s, c, i + 1)

\* str::split(c): the pieces between the occurrences of c; never empty.
RECURSIVE Split(_, _)
Split(s, c) ==
    LET i == IndexFrom(s, c, 1)
    IN  IF i = 0 THEN <<s>>
        ELSE <<SubSeq(s, 1, i - 1)>> \o Split(SubSeq(s, i + 1, Len(s)), c)

\* The pieces joined again with c between them.
RECURSIVE Join(_, _)
Join(parts, c) ==
    IF parts = <<>> THEN <<>>
    ELSE IF Len(parts) = 1 THEN parts[1]
    ELSE parts[1] \o <<c>> \o Join(Tail(parts), c)

\* Option<T>
None == [some |-> FALSE, ident |-> <<>>]
Some(id) == [some |-> TRUE, ident |-> id]

\* ------------------------------------------------ the endpoint description

\* An attribute of a field as Meta::from_attribute reads it: a #[ruma_api(word)]
\* ("word"), a #[ruma_api(name = value)] ("namevalue"), or an attribute that is
\* not a ruma_api one ("none": serde, doc, ...), for which it returns None.
Attr(meta, name, value) == [meta |-> meta, name |-> name, value |-> value]

AttrBody    == Attr("word", "body", "")
AttrPath    == Attr("word", "path", "")
AttrQuery   == Attr("word", "query", "")
AttrHeaderW == Attr("word", "header", "")
AttrHeader1 == Attr("namevalue", "header", "ACCEPT")
AttrHeader2 == Attr("namevalue", "header", "CONTENT_TYPE")
AttrOtherNV == Attr("namevalue", "query", "ACCEPT")
AttrSerde   == Attr("none", "serde", "")
AttrDoc     == Attr("none", "doc", "")

\* syn::Field: the identifier and the attributes (every field is a String).
Field(ident, attrs) == [ident |-> ident, attrs |-> attrs]

\* The identifier of the i-th declared field: a struct's fields have distinct
\* names.
FieldIdent(i) == <<<<"a">>, <<"b">>, <<"c">>, <<"d">>>>[i]

\* One entry of a syn::Error: the message and the tokens it is spanned to (the
\* field that owns them and which of its tokens).
ErrorEntry(msg, field, token) == [msg |-> msg, field |-> field, token |-> token]

\* --------------------------------------------- Request::try_from (request.rs)

RequestFieldKinds == {"Body", "Header", "NewtypeBody", "Path", "Query"}

\* The error of a second newtype body field: the field, combined with the
\* previous one.
TwoNewtypeErrorOnlyCurrent(ident, previous) ==
    <<ErrorEntry("There can only be one newtype body field", ident, "field")>>

TwoNewtypeError(ident, previous) ==
    <<ErrorEntry("There can only be one newtype body field", ident, "field"),
      ErrorEntry("Previous newtype body field", previous, "field")>>

\* The kind a Meta::Word names; "" where the word is not one of the three.
WordKindPathAsQuery(word) ==
    CASE word = "body"  -> "NewtypeBody"
      [] word = "path"  -> "Query"
      [] word = "query" -> "Query"
      [] OTHER          -> ""

WordKindWithHeader(word) ==
    CASE word = "body"   -> "NewtypeBody"
      [] word = "path"   -> "Path"
      [] word = "query"  -> "Query"
      [] word = "header" -> "Header"
      [] OTHER           -> ""

WordKind(word) ==
    CASE word = "body"  -> "NewtypeBody"
      [] word = "path"  -> "Path"
      [] word = "query" -> "Query"
      [] OTHER          -> ""

\* The state of the closure that classifies one field: field_kind ("" is
\* None), header ("" is None), the attributes pushed back onto the field, the
\* newtype body field seen so far, and the error returned (<<>>: none yet).
ClassifyStart(newtype) ==
    [field_kind |-> "", header |-> "", attrs |-> <<>>, newtype |-> newtype,
     err |-> <<>>]

\* One turn of the loop over the field's attributes.
ClassifyAttr(ident, attr, st) ==
    IF attr.meta = "none"
    THEN [st EXCEPT !.attrs = Append(@, attr)]
    ELSE IF st.field_kind # ""
    THEN [st EXCEPT !.err =
            <<ErrorEntry("There can only be one field kind attribute",
                         ident, attr.name)>>]
    ELSE IF attr.meta = "word"
    THEN IF WordKind(attr.name) = ""
         THEN [st EXCEPT !.err =
                 <<ErrorEntry("Invalid #[ruma_api] argument, expected one of body, path, query",
                              ident, attr.name)>>]
         ELSE IF attr.name = "body" /\ st.newtype.some
         THEN [st EXCEPT !.err = TwoNewtypeError(ident, st.newtype.ident)]
         ELSE IF attr.name = "body"
         THEN [st EXCEPT !.newtype = Some(ident), !.field_kind = WordKind(attr.name)]
         ELSE [st EXCEPT !.field_kind = WordKind(attr.name)]
    ELSE IF attr.name # "header"
    THEN [st EXCEPT !.err =
            <<ErrorEntry("Invalid #[ruma_api] argument with value, expected header",
                         ident, attr.name)>>]
    ELSE [st EXCEPT !.header = attr.value, !.field_kind = "Header"]

RECURSIVE ClassifyAttrs(_, _, _)
ClassifyAttrs(ident, attrs, st) ==
    IF attrs = <<>> \/ st.err # <<>> THEN st
    ELSE ClassifyAttrs(ident, Tail(attrs), ClassifyAttr(ident, Head(attrs), st))

\* RequestField::new: the field with its kind; a Header carries the name.
RequestFieldNew(kind, field, header) ==
    [kind |-> kind, field |-> field, header |-> header]

\* The closure applied to one raw field: Ok(RequestField) or Err.
ClassifyField(raw_field, newtype) ==
    LET st == ClassifyAttrs(raw_field.ident, raw_field.attrs, ClassifyStart(newtype))
    IN  [err |-> st.err,
         newtype |-> st.newtype,
         field |-> RequestFieldNew(IF st.field_kind = "" THEN "Body" ELSE st.field_kind,
                                   Field(raw_field.ident, st.attrs),
                                   st.header)]

\* map(..).collect::<syn::Result<Vec<_>>>(): the fields in order, up to the
\* first error.
RECURSIVE CollectFields(_, _, _)
CollectFields(raw_fields, newtype, acc) ==
    IF raw_fields = <<>>
    THEN [err |-> <<>>, newtype |-> newtype, fields |-> acc]
    ELSE LET r == ClassifyField(Head(raw_fields), newtype)
         IN  IF r.err # <<>>
             THEN [err |-> r.err, newtype |-> r.newtype, fields |-> acc]
             ELSE CollectFields(Tail(raw_fields), r.newtype, Append(acc, r.field))

\* The test after classification: a newtype body field beside body fields.
NewtypeBesideBodyNever(newtype, fields) == FALSE

NewtypeBesideBody(newtype, fields) ==
    newtype.some /\ \E i \in DOMAIN fields : fields[i].kind = "Body"

\* Request::try_from: Ok(Request) or Err(syn::Error).
RequestTryFrom(raw_fields) ==
    LET c == CollectFields(raw_fields, None, <<>>)
    IN  IF c.err # <<>>
        THEN [ok |-> FALSE, error |-> c.err, fields |-> <<>>]
        ELSE IF NewtypeBesideBody(c.newtype, c.fields)
        THEN [ok |-> FALSE,
              error |-> <<ErrorEntry("Can't have both a newtype body field and regular body fields",
                                     <<>>, "request")>>,
              fields |-> <<>>]
        ELSE [ok |-> TRUE, error |-> <<>>, fields |-> c.fields]

\* ------------------------------------------------- Request's derived queries

OfKind(fields, kind) == SelectSeq(fields, LAMBDA f : f.kind = kind)

has_body_fields(fields)   == \E i \in DOMAIN fields : fields[i].kind = "Body"
has_header_fields(fields) == \E i \in DOMAIN fields : fields[i].kind = "Header"
has_path_fields(fields)   == \E i \in DOMAIN fields : fields[i].kind = "Path"
has_query_fields(fields)  == \E i \in DOMAIN fields : fields[i].kind = "Query"
body_fields(fields)       == OfKind(fields, "Body")
header_fields(fields)     == OfKind(fields, "Header")
path_field_count(fields)  == Len(OfKind(fields, "Path"))

\* Request::path_field: the Path field of that name, if any.
path_field(fields, name) ==
    LET found == SelectSeq(fields, LAMBDA f : f.kind = "Path" /\ f.field.ident = name)
    IN  IF found = <<>> THEN None ELSE Some(found[1].field.ident)

\* Request::newtype_body_field: the first NewtypeBody field, if any.
newtype_body_field(fields) ==
    LET found == OfKind(fields, "NewtypeBody")
    IN  IF found = <<>> THEN None ELSE Some(found[1].field.ident)

\* ------------------------------------------- Response::from (src/response.rs)

\* The filter over one field's attributes: the kind found so far ("Body" at the
\* start), the attributes kept, and whether a panic! was reached.
RECURSIVE ResponseAttrs(_, _)
ResponseAttrs(attrs, st) ==
    IF attrs = <<>> \/ st.panic THEN st
    ELSE LET attr == Head(attrs)
         IN  ResponseAttrs(Tail(attrs),
                 IF attr.meta = "none"
                 THEN [st EXCEPT !.attrs = Append(@, attr)]
                 ELSE IF attr.meta = "word" /\ attr.name = "header"
                 THEN [st EXCEPT !.kind = "Header"]
                 ELSE [st EXCEPT !.panic = TRUE])

\* The fields classified in order; panic as soon as one attribute panics.
RECURSIVE ResponseFields(_, _)
ResponseFields(raw_fields, acc) ==
    IF raw_fields = <<>> THEN [panic |-> FALSE, fields |-> acc]
    ELSE LET f  == Head(raw_fields)
             st == ResponseAttrs(f.attrs, [kind |-> "Body", attrs |-> <<>>, panic |-> FALSE])
         IN  IF st.panic THEN [panic |-> TRUE, fields |-> <<>>]
             ELSE ResponseFields(Tail(raw_fields),
                      Append(acc, [kind |-> st.kind, field |-> Field(f.ident, st.attrs),
                                   header |-> ""]))

ResponseFrom(raw_fields) == ResponseFields(raw_fields, <<>>)

\* Response::has_fields
has_fields(fields) == Len(fields) # 0

\* --------------------------------------------------- Api::try_from (api.rs)

\* Metadata::try_from is not part of the sources at hand: a well-formed metadata
\* section converts to its method and path.
MetadataTryFrom(raw_metadata) == [ok |-> TRUE, metadata |-> raw_metadata]

\* The combined error of a GET endpoint with body fields: add_error for every
\* body field, then for the newtype body field.
GetBodyErrorWithoutNewtype(fields) ==
    [i \in 1..Len(body_fields(fields)) |->
        ErrorEntry("GET endpoints can't have body fields",
                   body_fields(fields)[i].field.ident, "field")]

GetBodyError(fields) ==
    [i \in 1..Len(body_fields(fields)) |->
        ErrorEntry("GET endpoints can't have body fields",
                   body_fields(fields)[i].field.ident, "field")]
    \o (IF newtype_body_field(fields).some
        THEN <<ErrorEntry("GET endpoints can't have body fields",
                          newtype_body_field(fields).ident, "field")>>
        ELSE <<>>)

NoApi ==
    [outcome |-> "none", error |-> <<>>, method |-> "", path |-> <<>>,
     request |-> <<>>, response |-> <<>>]

\* Api::try_from: Ok(Api), Err(syn::Error), or the panic of Response::from.
ApiTryFromResult(raw) ==
    LET m   == MetadataTryFrom(raw.metadata)
        req == RequestTryFrom(raw.request)
        res == ResponseFrom(raw.response)
        api == [NoApi EXCEPT !.method = m.metadata.method, !.path = m.metadata.path]
    IN  IF ~req.ok
        THEN [api EXCEPT !.outcome = "err", !.error = req.error]
        ELSE IF res.panic
        THEN [api EXCEPT !.outcome = "panic"]
        ELSE IF m.metadata.method = "GET"
                /\ (has_body_fields(req.fields) \/ newtype_body_field(req.fields).some)
        THEN [api EXCEPT !.outcome = "err", !.error = GetBodyError(req.fields)]
        ELSE [api EXCEPT !.outcome = "ok", !.request = req.fields,
                         !.response = res.fields]

\* --------------------------------------------------- Api::to_tokens (api.rs)

Letters == {"a", "b", "c", "d", "x", "y", "v", "w"}

\* Ident::new panics unless the string is an identifier.
ValidIdent(name) == name # <<>> /\ \A i \in DOMAIN name : name[i] \in Letters

\* path_str[1..].split('/')
TemplateSegments(path_str) == Split(Tail1(path_str), "/")

\* The first assert!: the path starts with '/'.
PathStartsWithSlash(path_str) == StartsWith(path_str, "/")

\* The second assert!: as many ':' in the path as the request has path fields.
PlaceholderCountMatchesAlways(path_str, fields) == TRUE

PlaceholderCountMatches(path_str, fields) ==
    CountChar(path_str, ":") = path_field_count(fields)

\* path_segment_push: per template segment, the literal pushed or the field of
\* request_path whose string is pushed.
PathSegmentPush(segments) ==
    [i \in 1..Len(segments) |->
        IF StartsWith(segments[i], ":")
        THEN [placeholder |-> TRUE, text |-> Tail1(segments[i])]
        ELSE [placeholder |-> FALSE, text |-> segments[i]]]

\* path_fields: per segment that starts with ':', its position in the template
\* (from 0) and the field it initialises.
RECURSIVE PathFieldsFrom(_, _)
PathFieldsFrom(segments, i) ==
    IF i > Len(segments) THEN <<>>
    ELSE (IF StartsWith(segments[i], ":")
          THEN <<[i |-> i - 1, ident |-> Tail1(segments[i])]>>
          ELSE <<>>) \o PathFieldsFrom(segments, i + 1)

PathFields(segments) == PathFieldsFrom(segments, 1)

\* The expect on Request::path_field: every placeholder names a path field.
PlaceholdersResolveAlways(segments, fields) == TRUE

PlaceholdersResolve(segments, fields) ==
    \A k \in DOMAIN PathFields(segments) :
        path_field(fields, PathFields(segments)[k].ident).some

\* strip_serde_attrs: field.attrs.retain(|attr| attr.path.is_ident("serde"))
strip_serde_attrs(field) ==
    Field(field.ident, SelectSeq(field.attrs, LAMBDA attr : attr.name = "serde"))

\* Request::to_tokens: the fields of the generated struct Request.
RequestStruct(fields) ==
    [i \in 1..Len(fields) |-> strip_serde_attrs(fields[i].field)]

NoArtifact ==
    [emitted |-> FALSE, has_path |-> FALSE, set_path |-> <<>>, parse_path |-> <<>>,
     request_struct |-> <<>>]

\* What to_tokens produces for the request path: a panic (an assert! or an
\* expect fails, or Ident::new is given no identifier), or the two pieces of
\* generated code.
ToTokensResult(api) ==
    IF has_path_fields(api.request)
    THEN LET segments == TemplateSegments(api.path)
         IN  IF ~PathStartsWithSlash(api.path)
                \/ ~PlaceholderCountMatches(api.path, api.request)
                \/ (\E k \in DOMAIN PathFields(segments) :
                        ~ValidIdent(PathFields(segments)[k].ident))
                \/ ~PlaceholdersResolve(segments, api.request)
             THEN NoArtifact
             ELSE [emitted |-> TRUE, has_path |-> TRUE,
                   set_path |-> PathSegmentPush(segments),
                   parse_path |-> PathFields(segments),
                   request_struct |-> RequestStruct(api.request)]
    ELSE [emitted |-> TRUE, has_path |-> FALSE, set_path |-> <<>>,
          parse_path |-> <<>>, request_struct |-> RequestStruct(api.request)]

\* ---------------------------------------------- strings on the wire

\* The characters percent-encoded in a URL path segment and in a form value,
\* with their escapes.
Escaped == {"/", "%", "\n"}
Escape(c) ==
    CASE c = "/"  -> <<"%", "2", "F">>
      [] c = "%"  -> <<"%", "2", "5">>
      [] c = "\n" -> <<"%", "0", "A">>

\* utf8_percent_encode
RECURSIVE PercentEncode(_)
PercentEncode(s) ==
    IF s = <<>> THEN <<>>
    ELSE (IF Head(s) \in Escaped THEN Escape(Head(s)) ELSE <<Head(s)>>)
         \o PercentEncode(Tail(s))

\* percent_decode: an escape becomes its character, anything else stays.
RECURSIVE PercentDecode(_)
PercentDecode(s) ==
    IF s = <<>> THEN <<>>
    ELSE IF Len(s) >= 3 /\ \E c \in Escaped : SubSeq(s, 1, 3) = Escape(c)
    THEN <<CHOOSE c \in Escaped : SubSeq(s, 1, 3) = Escape(c)>>
         \o PercentDecode(SubSeq(s, 4, Len(s)))
    ELSE <<Head(s)>> \o PercentDecode(Tail(s))

\* A byte of a header value that is not ASCII (obs-text).
ObsText == "0x80"

\* HeaderValue::from_str accepts visible ASCII only.
ValidHeaderValue(v) == \A i \in DOMAIN v : v[i] # "\n"

\* serde_urlencoded::to_string of a struct: key=value pairs joined with '&'.
FormEncode(pairs) ==
    Join([i \in 1..Len(pairs) |->
             PercentEncode(pairs[i].key) \o <<"=">> \o PercentEncode(pairs[i].val)],
         "&")

\* The pairs of a form-encoded string.
FormPairs(str) ==
    IF str = <<>> THEN <<>>
    ELSE LET parts == Split(str, "&")
         IN  [i \in 1..Len(parts) |->
                LET eq == IndexFrom(parts[i], "=", 1)
                IN  IF eq = 0
                    THEN [key |-> PercentDecode(parts[i]), val |-> <<>>]
                    ELSE [key |-> PercentDecode(SubSeq(parts[i], 1, eq - 1)),
                          val |-> PercentDecode(SubSeq(parts[i], eq + 1, Len(parts[i])))]]

\* The values the members called key have.
ValuesOf(members, key) ==
    SelectSeq(members, LAMBDA m : m.key = key)

\* Deserialising a struct of String fields from key/value members: every field
\* exactly once.
StructFrom(members, idents) ==
    \A i \in DOMAIN idents : Len(ValuesOf(members, idents[i])) = 1

\* ------------------------------------------------------------ bodies

\* A JSON text: an object of string members, or a string.
JsonObject(members) == [t |-> "object", members |-> members, s |-> <<>>]
JsonString(str)     == [t |-> "string", members |-> <<>>, s |-> str]

\* A body: no bytes at all, the bytes of a JSON text, or bytes that are not a
\* JSON text.
EmptyBytes  == [kind |-> "empty", json |-> JsonObject(<<>>)]
NotJson     == [kind |-> "garbage", json |-> JsonObject(<<>>)]
JsonBytes(j) == [kind |-> "json", json |-> j]

\* The identifiers of the fields.
Idents(fields) == [i \in 1..Len(fields) |-> fields[i].field.ident]

\* Position of the field called ident among the declared fields.
IndexOf(fields, ident) == CHOOSE i \in DOMAIN fields : fields[i].field.ident = ident

\* struct_init_fields: the members name: src.name for the fields of a kind.
StructInit(fields, kind, values) ==
    LET fs == OfKind(fields, kind)
    IN  [i \in 1..Len(fs) |->
            [key |-> fs[i].field.ident, val |-> values[IndexOf(fields, fs[i].field.ident)]]]

\* ----------------------------------------------- the generated request code

NoHttpRequest ==
    [method |-> "", path |-> <<>>, query |-> None, headers |-> <<>>,
     body |-> EmptyBytes]

\* set_request_path: the template's segments pushed onto the URL's path, a
\* placeholder's value percent-encoded; or the metadata's path set as it is.
SetRequestPathRaw(api, art, request) ==
    IF art.has_path
    THEN <<"/">> \o Join([i \in 1..Len(art.set_path) |->
                            IF art.set_path[i].placeholder
                            THEN request[IndexOf(api.request, art.set_path[i].text)]
                            ELSE art.set_path[i].text], "/")
    ELSE IF StartsWith(api.path, "/") THEN api.path ELSE <<"/">> \o api.path

SetRequestPathDeclarationOrder(api, art, request) ==
    IF art.has_path
    THEN LET paths == OfKind(api.request, "Path")
             nth(i) == Cardinality({j \in 1..i : art.set_path[j].placeholder})
         IN  <<"/">> \o Join([i \in 1..Len(art.set_path) |->
                            IF art.set_path[i].placeholder
                            THEN PercentEncode(request[IndexOf(api.request,
                                                   paths[nth(i)].field.ident)])
                            ELSE art.set_path[i].text], "/")
    ELSE IF StartsWith(api.path, "/") THEN api.path ELSE <<"/">> \o api.path

SetRequestPath(api, art, request) ==
    IF art.has_path
    THEN <<"/">> \o Join([i \in 1..Len(art.set_path) |->
                            IF art.set_path[i].placeholder
                            THEN PercentEncode(request[IndexOf(api.request, art.set_path[i].text)])
                            ELSE art.set_path[i].text], "/")
    ELSE IF StartsWith(api.path, "/") THEN api.path ELSE <<"/">> \o api.path

\* set_request_query: the query fields form-encoded, if there are any.
SetRequestQuery(api, request) ==
    IF has_query_fields(api.request)
    THEN Some(FormEncode(StructInit(api.request, "Query", request)))
    ELSE None

\* create_http_request: the body of the three modes.
CreateHttpRequestBody(api, request) ==
    IF newtype_body_field(api.request).some
    THEN JsonBytes(JsonString(request[IndexOf(api.request, newtype_body_field(api.request).ident)]))
    ELSE IF has_body_fields(api.request)
    THEN JsonBytes(JsonObject(StructInit(api.request, "Body", request)))
    ELSE EmptyBytes

\* add_headers_to_request: one headers.append per header field.
AddHeadersToRequest(api, request) ==
    LET hs == header_fields(api.request)
    IN  [i \in 1..Len(hs) |->
            [name |-> hs[i].header,
             value |-> request[IndexOf(api.request, hs[i].field.ident)]]]

\* The expect of add_headers_to_request: every header value converts.
HeaderValuesConvert(api, request) ==
    \A i \in DOMAIN api.request :
        api.request[i].kind = "Header" => ValidHeaderValue(request[i])

\* TryFrom<Request> for http::Request<Vec<u8>>
EncodeRequestResult(api, art, request) ==
    [method  |-> api.method,
     path    |-> SetRequestPath(api, art, request),
     query   |-> SetRequestQuery(api, request),
     headers |-> AddHeadersToRequest(api, request),
     body    |-> CreateHttpRequestBody(api, request)]

\* The members of Ok(Self { .. }) in TryFrom<http::Request>: the path fields per
\* placeholder, then the query, header and body fields.
RequestInitIdents(api, art) ==
    [k \in 1..Len(art.parse_path) |-> art.parse_path[k].ident]
    \o Idents(OfKind(api.request, "Query"))
    \o Idents(OfKind(api.request, "Header"))
    \o (IF newtype_body_field(api.request).some
        THEN <<newtype_body_field(api.request).ident>>
        ELSE Idents(OfKind(api.request, "Body")))

\* A struct expression names every field of the struct once: otherwise the
\* generated code is rejected by the compiler.
RequestInitComplete(api, art) ==
    /\ Len(RequestInitIdents(api, art)) = Len(api.request)
    /\ \A i \in DOMAIN api.request :
          \E k \in DOMAIN RequestInitIdents(api, art) :
              RequestInitIdents(api, art)[k] = api.request[i].field.ident

\* headers.get(name): the first value appended under the name.
HeaderGetLast(headers, name) ==
    LET found == SelectSeq(headers, LAMBDA h : h.name = name)
    IN  IF found = <<>> THEN None ELSE Some(found[Len(found)].value)

HeaderGet(headers, name) ==
    LET found == SelectSeq(headers, LAMBDA h : h.name = name)
    IN  IF found = <<>> THEN None ELSE Some(found[1].value)

\* uri.path()[1..].split('/')
ExtractRequestPath(http) == Split(Tail1(http.path), "/")

\* The value a path field is initialised with: the segment at the position of
\* its placeholder, percent-decoded.
ParsePathField(art, segments, ident) ==
    LET k == CHOOSE k \in DOMAIN art.parse_path : art.parse_path[k].ident = ident
    IN  PercentDecode(segments[art.parse_path[k].i + 1])

Outcome(outcome, error, fields) ==
    [outcome |-> outcome, error |-> error, fields |-> fields, status |-> 0,
     name |-> ""]

NoOutcome == Outcome("none", "", <<>>)

\* serde_json::Error::missing_field(name) turned into a ruma_api::Error.
MissingField(name) == [Outcome("err", "missing_field", <<>>) EXCEPT !.name = name]

\* A StatusCode turned into a ruma_api::Error.
StatusError(status) == [Outcome("err", "status", <<>>) EXCEPT !.status = status]

\* HeaderValue::to_str: the string of a value of visible ASCII, or nothing.
ToStr(value) ==
    IF value.some /\ \A i \in DOMAIN value.ident : value.ident[i] \notin {"\n", ObsText}
    THEN value ELSE None

\* The first header field, in declaration order, whose header is not there or
\* is not a string: the ? of its initialiser returns.
FirstHeaderFailure(fields, headers) ==
    LET failing == {i \in DOMAIN fields :
                       /\ fields[i].kind = "Header"
                       /\ ~ToStr(HeaderGet(headers, fields[i].header)).some}
    IN  IF failing = {} THEN 0
        ELSE CHOOSE i \in failing : \A j \in failing : i <= j

\* TryFrom<http::Request<Vec<u8>>> for Request: extract the query and the body
\* (each may return an error), then initialise the fields (a short path
\* panics, a missing header returns an error).
DecodeRequestResult(api, art, http) ==
    LET fields   == api.request
        segments == ExtractRequestPath(http)
        query    == FormPairs(IF http.query.some THEN http.query.ident ELSE <<>>)
        newtype  == newtype_body_field(fields)
        members  == http.body.json.members
    IN  IF has_query_fields(fields)
           /\ ~StructFrom(query, Idents(OfKind(fields, "Query")))
        THEN Outcome("err", "query", <<>>)
        ELSE IF newtype.some /\ ~(http.body.kind = "json" /\ http.body.json.t = "string")
        THEN Outcome("err", "body", <<>>)
        ELSE IF ~newtype.some /\ has_body_fields(fields)
                /\ ~(http.body.kind = "json" /\ http.body.json.t = "object"
                     /\ StructFrom(members, Idents(OfKind(fields, "Body"))))
        THEN Outcome("err", "body", <<>>)
        ELSE IF \E k \in DOMAIN art.parse_path : art.parse_path[k].i + 1 > Len(segments)
        THEN Outcome("panic", "path", <<>>)
        ELSE IF FirstHeaderFailure(fields, http.headers) # 0
        THEN MissingField(fields[FirstHeaderFailure(fields, http.headers)].header)
        ELSE Outcome("ok", "",
                [i \in 1..Len(fields) |->
                    CASE fields[i].kind = "Path" ->
                            ParsePathField(art, segments, fields[i].field.ident)
                      [] fields[i].kind = "Query" ->
                            ValuesOf(query, fields[i].field.ident)[1].val
                      [] fields[i].kind = "Header" ->
                            HeaderGet(http.headers, fields[i].header).ident
                      [] fields[i].kind = "NewtypeBody" -> http.body.json.s
                      [] fields[i].kind = "Body" ->
                            ValuesOf(members, fields[i].field.ident)[1].val])

\* ---------------------------------------------- the generated response code

\* The header a response header field is kept under: init_fields looks the
\* field's own name up.
RECURSIVE IdentString(_)
IdentString(ident) ==
    IF ident = <<>> THEN "" ELSE Head(ident) \o IdentString(Tail(ident))

JsonContentType == <<"application/json">>

\* http::Response::builder() starts from 200 OK.
BuilderStatus == 200

IsSuccessAlways(status) == TRUE

\* StatusCode::is_success
IsSuccess(status) == 200 <= status /\ status < 300

NoHttpResponse == [status |-> 0, headers |-> <<>>, body |-> EmptyBytes]

\* Response::has_body, Response::apply_header_fields and Response::to_body
\* are not part of the sources at hand; they follow sections 4.5 and 4.6 of the
\* specification.
has_body(fields) == \E i \in DOMAIN fields : fields[i].kind = "Body"

ApplyHeaderFields(fields, response) ==
    LET hs == OfKind(fields, "Header")
    IN  [i \in 1..Len(hs) |->
            [name |-> IdentString(hs[i].field.ident),
             value |-> response[IndexOf(fields, hs[i].field.ident)]]]

\* A header value that does not convert is a fatal construction error.
ResponseHeaderValuesConvert(api, response) ==
    \A i \in DOMAIN api.response :
        api.response[i].kind = "Header" => ValidHeaderValue(response[i])

ToBody(fields, response) == JsonObject(StructInit(fields, "Body", response))

\* try_serialize_response_body: the body fields as JSON, or the text {}.
TrySerializeResponseBodyEmpty(api, response) == EmptyBytes

TrySerializeResponseBody(api, response) ==
    IF has_body(api.response)
    THEN JsonBytes(ToBody(api.response, response))
    ELSE JsonBytes(JsonObject(<<>>))

\* TryFrom<Response> for http::Response<Vec<u8>>
EncodeResponseResult(api, response) ==
    [status  |-> BuilderStatus,
     headers |-> <<[name |-> "CONTENT_TYPE", value |-> JsonContentType]>>
                 \o ApplyHeaderFields(api.response, response),
     body    |-> TrySerializeResponseBody(api, response)]

\* Response::init_fields: a body field from response_body, a header field from
\* the headers (its expect panics when the header is missing).
ResponseInitFieldsSwapped(fields, http) ==
    [i \in 1..Len(fields) |->
        IF fields[i].kind = "Body"
        THEN ValuesOf(http.body.json.members, fields[Len(fields) + 1 - i].field.ident)[1].val
        ELSE HeaderGet(http.headers, IdentString(fields[i].field.ident)).ident]

ResponseInitFields(fields, http) ==
    [i \in 1..Len(fields) |->
        IF fields[i].kind = "Body"
        THEN ValuesOf(http.body.json.members, fields[i].field.ident)[1].val
        ELSE HeaderGet(http.headers, IdentString(fields[i].field.ident)).ident]

\* TryFrom<http::Response<Vec<u8>>> for Response
DecodeResponseResult(api, http) ==
    LET fields == api.response
    IN  IF ~IsSuccess(http.status)
        THEN StatusError(http.status)
        ELSE IF has_body(fields)
                /\ ~(http.body.kind = "json" /\ http.body.json.t = "object"
                     /\ StructFrom(http.body.json.members, Idents(OfKind(fields, "Body"))))
        THEN Outcome("err", "body", <<>>)
        ELSE IF \E i \in DOMAIN fields :
                    /\ fields[i].kind = "Header"
                    /\ ~HeaderGet(http.headers, IdentString(fields[i].field.ident)).some
        THEN Outcome("panic", "header", <<>>)
        ELSE Outcome("ok", "",
                     IF has_fields(fields) THEN ResponseInitFields(fields, http) ELSE <<>>)

\* ------------------------------------------------------------------ inputs

Methods == {"GET", "POST"}

\* Attributes a request field is given.
RequestAttrs ==
    {AttrBody, AttrPath, AttrQuery, AttrHeaderW, AttrHeader1, AttrHeader2,
     AttrOtherNV, AttrSerde, AttrDoc}

\* Attributes that classify a request field without error.
PlainRequestAttrs == {AttrBody, AttrPath, AttrQuery, AttrHeader1, AttrHeader2}

\* Attributes a response field is given.
ResponseAttrs_ == {AttrHeaderW, AttrBody, AttrHeader1, AttrSerde}

\* The attribute lists of n fields holding at most k attributes of A in all.
RECURSIVE AttrLists(_, _, _)
AttrLists(A, n, k) ==
    IF n = 0 THEN {<<>>}
    ELSE UNION {{<<s>> \o rest : s \in [1..j -> A], rest \in AttrLists(A, n - 1, k - j)} :
                j \in 0..k}

\* The fields of a section: the i-th declared field with the i-th list.
WithIdents(lists) == [i \in 1..Len(lists) |-> Field(FieldIdent(i), lists[i])]

\* parse_terminated::<Field>: the field lists of a request section.
RawRequests ==
    {WithIdents(l) : l \in UNION {AttrLists(RequestAttrs, n, MaxAttrs) : n \in 0..MaxFields}}

\* The request sections in which every field has at most one attribute, of a
\* kind that classifies.
PlainRawRequests ==
    {WithIdents(l) :
        l \in UNION {[1..n -> {<<>>} \cup {<<a>> : a \in PlainRequestAttrs}] :
                     n \in 0..MaxFields}}

\* The field lists of a response section.
RawResponses ==
    {WithIdents(l) : l \in UNION {AttrLists(ResponseAttrs_, n, MaxAttrs) : n \in 0..MaxFields}}

\* Segments of a path template: a literal, two placeholders, a literal that
\* holds a ':'.
Segments == {<<"x">>, <<":", "a">>, <<":", "b">>, <<"x", ":", "y">>}

\* The path templates: with or without the leading '/', then the segments.
Templates ==
    {(IF rooted THEN <<"/">> ELSE <<>>) \o Join(segs, "/") :
        rooted \in BOOLEAN, segs \in UNION {[1..n -> Segments] : n \in 0..MaxSegs}}

\* The ruma_api! input: metadata, request and response sections.
RawApi(method, path, request, response) ==
    [metadata |-> [method |-> method, path |-> path],
     request |-> request, response |-> response]

\* The status codes of a response: a success and a failure.
Statuses == {200, 404}

\* The path of an incoming request: the one sent, or that path without its
\* last segment.
IncomingPaths(path) ==
    LET segments == Split(Tail1(path), "/")
    IN  {path, <<"/">> \o Join(SubSeq(segments, 1, Len(segments) - 1), "/")}

\* The headers sent, or one of them missing.
MissingHeaders(headers) ==
    {headers}
    \cup {[i \in 1..(Len(headers) - 1) |-> IF i < k THEN headers[i] ELSE headers[i + 1]] :
              k \in DOMAIN headers}

\* The headers of an incoming message: those sent, or one of them missing, or
\* one of them holding a byte that is not ASCII.
IncomingHeaders(headers) ==
    MissingHeaders(headers)
    \cup {[headers EXCEPT ![k].value = <<ObsText>>] : k \in DOMAIN headers}

\* The endpoint of tests/ruma_api_macros.rs: a body field, a header field, a
\* query field and a path field named like the template's placeholder; a
\* response with a header field and a body field.  The method and the header
\* field's attribute are those of the test (GET, the word header) or POST and
\* header = CONTENT_TYPE.
SomeEndpoint(method, header_attr) ==
    RawApi(method, <<"/", "x", "/", ":", "d">>,
           <<Field(FieldIdent(1), <<>>),
             Field(FieldIdent(2), <<header_attr>>),
             Field(FieldIdent(3), <<AttrQuery>>),
             Field(FieldIdent(4), <<AttrPath>>)>>,
           <<Field(FieldIdent(1), <<AttrHeaderW>>),
             Field(FieldIdent(2), <<>>)>>)

\* ------------------------------------------------------------ state machine

\* Values of the fields of a Request or Response.
Values == {<<"v">>, <<"w", "/">>, <<"\n">>}

VARIABLES
    raw_api,        \* the parsed macro input
    stage,          \* how far the compilation and the use of its result have come
    api,            \* the result of Api::try_from
    artifact,       \* the code to_tokens generated
    request,        \* the Request converted into an http::Request
    http_request,   \* the http::Request
    request_out,    \* the result of converting the http::Request back
    response,       \* the Response converted into an http::Response
    http_response,  \* the http::Response
    response_out    \* the result of converting the http::Response back

vars ==
    <<raw_api, stage, api, artifact, request, http_request, request_out,
      response, http_response, response_out>>

compiler == <<raw_api, api, artifact>>
request_side == <<request, http_request, request_out>>
response_side == <<response, http_response, response_out>>

Init ==
    /\ \/ \E m \in Methods, r \in RawRequests :
              raw_api = RawApi(m, <<"/">>, r, <<>>)
       \/ \E t \in Templates, r \in PlainRawRequests :
              raw_api = RawApi("POST", t, r, <<>>)
       \/ \E r \in RawResponses :
              raw_api = RawApi("POST", <<"/">>, <<>>, r)
       \/ \E m \in Methods, h \in {AttrHeaderW, AttrHeader2} :
              raw_api = SomeEndpoint(m, h)
    /\ stage = "parsed"
    /\ api = NoApi
    /\ artifact = NoArtifact
    /\ request = <<>>
    /\ http_request = NoHttpRequest
    /\ request_out = NoOutcome
    /\ response = <<>>
    /\ http_response = NoHttpResponse
    /\ response_out = NoOutcome

\* Api::try_from on the parsed input.
ApiTryFrom ==
    /\ stage = "parsed"
    /\ api' = ApiTryFromResult(raw_api)
    /\ stage' = "api_" \o api'.outcome
    /\ UNCHANGED <<raw_api, artifact, request_side, response_side>>

\* Api::to_tokens on the Api that try_from returned.
ToTokens ==
    /\ stage = "api_ok"
    /\ artifact' = ToTokensResult(api)
    /\ stage' = IF artifact'.emitted THEN "emitted" ELSE "tokens_panic"
    /\ UNCHANGED <<raw_api, api, request_side, response_side>>

\* The generated code is compiled only if its struct expressions are complete.
Usable == stage = "emitted" /\ RequestInitComplete(api, artifact)

\* A Request is converted into an http::Request.
EncodeRequest ==
    /\ Usable
    /\ \E r \in [1..Len(api.request) -> Values] :
          /\ request' = r
          /\ IF HeaderValuesConvert(api, r)
             THEN /\ http_request' = EncodeRequestResult(api, artifact, r)
                  /\ stage' = "request_encoded"
             ELSE /\ http_request' = NoHttpRequest
                  /\ stage' = "request_encode_panic"
    /\ UNCHANGED <<compiler, request_out, response_side>>

\* The http::Request a server is handed need not be one this code made: its
\* path may have fewer segments, a header may be missing or hold bytes that are no string, the body may be
\* anything.
ReceiveRequest ==
    /\ stage = "request_encoded"
    /\ \E p \in IncomingPaths(http_request.path),
          h \in IncomingHeaders(http_request.headers),
          b \in {http_request.body, EmptyBytes, NotJson} :
          http_request' = [http_request EXCEPT !.path = p, !.headers = h, !.body = b]
    /\ stage' = "request_received"
    /\ UNCHANGED <<compiler, request, request_out, response_side>>

\* The http::Request is converted back into a Request.
DecodeRequest ==
    /\ stage \in {"request_encoded", "request_received"}
    /\ request_out' = DecodeRequestResult(api, artifact, http_request)
    /\ stage' = IF stage = "request_encoded" THEN "request_decoded"
                ELSE "request_answered"
    /\ UNCHANGED <<compiler, request, http_request, response_side>>

\* A Response is converted into an http::Response.
EncodeResponse ==
    /\ Usable
    /\ \E r \in [1..Len(api.response) -> Values] :
          /\ response' = r
          /\ IF ResponseHeaderValuesConvert(api, r)
             THEN /\ http_response' = EncodeResponseResult(api, r)
                  /\ stage' = "response_encoded"
             ELSE /\ http_response' = NoHttpResponse
                  /\ stage' = "response_encode_panic"
    /\ UNCHANGED <<compiler, response_out, request_side>>

\* The http::Response a client is handed need not be one this code made: any
\* status, a header may be missing, the body may be anything.
ReceiveResponse ==
    /\ stage = "response_encoded"
    /\ \E st \in Statuses, h \in MissingHeaders(http_response.headers),
          b \in {http_response.body, EmptyBytes, NotJson} :
          http_response' = [status |-> st, headers |-> h, body |-> b]
    /\ stage' = "response_received"
    /\ UNCHANGED <<compiler, response, response_out, request_side>>

\* The http::Response is converted back into a Response.
DecodeResponse ==
    /\ stage \in {"response_encoded", "response_received"}
    /\ response_out' = DecodeResponseResult(api, http_response)
    /\ stage' = IF stage = "response_encoded" THEN "response_decoded"
                ELSE "response_answered"
    /\ UNCHANGED <<compiler, response, http_response, request_side>>

Next ==
    \/ ApiTryFrom
    \/ ToTokens
    \/ EncodeRequest
    \/ ReceiveRequest
    \/ DecodeRequest
    \/ EncodeResponse
    \/ ReceiveResponse
    \/ DecodeResponse

Spec == Init /\ [][Next]_vars

\* ------------------------------------------------------------ properties

\* The ruma_api attributes written on a raw field.
RumaAttrs(raw_field) == SelectSeq(raw_field.attrs, LAMBDA a : a.meta # "none")

\* The raw field is annotated with the word.
HasWord(raw_field, word) ==
    \E k \in DOMAIN raw_field.attrs :
        raw_field.attrs[k].meta = "word" /\ raw_field.attrs[k].name = word

\* The number of entries of the error spanned to the field.
EntriesFor(error, ident, msg) ==
    Cardinality({k \in DOMAIN error : error[k].field = ident /\ error[k].msg = msg})

NewtypeAnnotated(raw) == {i \in DOMAIN raw : RumaAttrs(raw[i]) = <<AttrBody>>}

\* The raw field has at most one ruma_api attribute, and one that names a kind.
CleanField(raw_field) ==
    \/ RumaAttrs(raw_field) = <<>>
    \/ /\ Len(RumaAttrs(raw_field)) = 1
       /\ RumaAttrs(raw_field)[1] \in PlainRequestAttrs

\* C2: a request with two fields annotated body fails classification; where
\* the second of them is the first violation met, the error names that field
\* and then the previous newtype body field; a validated Request never holds
\* two NewtypeBody fields.
C2_TwoNewtypeBodyFields ==
    LET raw == raw_api.request
        req == RequestTryFrom(raw)
        nt  == NewtypeAnnotated(raw)
    IN  stage # "parsed"
        => /\ (\E i, j \in DOMAIN raw : i # j /\ HasWord(raw[i], "body") /\ HasWord(raw[j], "body"))
              => (~req.ok /\ api.outcome = "err")
           /\ \A i, j \in nt :
                 (/\ i < j
                  /\ \A k \in nt : k >= i /\ (k > i => k >= j)
                  /\ \A k \in 1..j : CleanField(raw[k]))
                 => api.error =
                      <<ErrorEntry("There can only be one newtype body field", raw[j].ident, "field"),
                        ErrorEntry("Previous newtype body field", raw[i].ident, "field")>>
           /\ req.ok => Len(OfKind(req.fields, "NewtypeBody")) <= 1

\* Two body-annotated fields were rejected with the two-entry error.
C2_Witness ==
    /\ stage = "api_err"
    /\ Cardinality(NewtypeAnnotated(raw_api.request)) = 2
    /\ Len(api.error) = 2
    /\ api.error[1].msg = "There can only be one newtype body field"
    /\ api.error[2].msg = "Previous newtype body field"

\* C3: no validated Request or Response holds a NewtypeBody field beside a Body
\* field: a request with a body-annotated field and an unannotated one (in
\* either order) fails, and so does a response with a body-annotated field.
C3_NewtypeExcludesBody ==
    LET raw == raw_api.request
        req == RequestTryFrom(raw)
        res == ResponseFrom(raw_api.response)
    IN  stage # "parsed"
        => /\ req.ok => ~(has_body_fields(req.fields) /\ newtype_body_field(req.fields).some)
           /\ (\E i, j \in DOMAIN raw : HasWord(raw[i], "body") /\ RumaAttrs(raw[j]) = <<>>)
              => (~req.ok /\ api.outcome = "err")
           /\ ~res.panic => \A i \in DOMAIN res.fields : res.fields[i].kind # "NewtypeBody"
           /\ (\E i \in DOMAIN raw_api.response : HasWord(raw_api.response[i], "body"))
              => (res.panic /\ api.outcome # "ok")
           /\ api.outcome = "ok"
              => /\ ~(has_body_fields(api.request) /\ newtype_body_field(api.request).some)
                 /\ ~(has_body(api.response) /\ newtype_body_field(api.response).some)

\* A body field declared before a newtype body field was rejected for it.
C3_Witness ==
    /\ stage = "api_err"
    /\ Len(raw_api.request) = 2
    /\ raw_api.request[1].attrs = <<>>
    /\ raw_api.request[2].attrs = <<AttrBody>>
    /\ api.error = <<ErrorEntry("Can't have both a newtype body field and regular body fields",
                                <<>>, "request")>>

\* The names of the template's placeholders: the pieces between the '/' that
\* begin with ':' (section 4.3 of the specification).
Placeholders(path_str) ==
    LET marked == SelectSeq(Split(path_str, "/"), LAMBDA seg : StartsWith(seg, ":"))
    IN  [k \in 1..Len(marked) |-> Tail1(marked[k])]

\* C4: no artifact is emitted when the number of placeholders of the path
\* template differs from the number of Path fields of the request, whichever
\* is larger and also when one of them is zero.
C4_PlaceholderCountMismatchFails ==
    artifact.emitted
    => Len(Placeholders(api.path)) = path_field_count(api.request)

\* C5: whenever an artifact is emitted, every placeholder of the path template
\* has the name of a Path field of the request.
C5_PlaceholdersNamePathFields ==
    artifact.emitted
    => \A k \in DOMAIN Placeholders(api.path) :
          path_field(api.request, Placeholders(api.path)[k]).some

\* C6: no artifact is emitted for a path template that does not begin with
\* '/', with or without Path fields.
C6_UnrootedTemplateFails ==
    artifact.emitted => StartsWith(api.path, "/")

\* The rules an endpoint description violates, by the message of the error that
\* reports each.
ViolatedRules(raw) ==
    {"There can only be one field kind attribute" : i \in
        {i \in DOMAIN raw.request : Len(RumaAttrs(raw.request[i])) > 1}}
    \cup
    {"Invalid #[ruma_api] argument with value, expected header" : i \in
        {i \in DOMAIN raw.request :
            \E k \in DOMAIN raw.request[i].attrs :
                /\ raw.request[i].attrs[k].meta = "namevalue"
                /\ raw.request[i].attrs[k].name # "header"}}
    \cup
    {"There can only be one newtype body field" : i \in
        {i \in DOMAIN raw.request :
            /\ HasWord(raw.request[i], "body")
            /\ \E j \in DOMAIN raw.request : j # i /\ HasWord(raw.request[j], "body")}}
    \cup
    {"Can't have both a newtype body field and regular body fields" : i \in
        {i \in DOMAIN raw.request :
            /\ HasWord(raw.request[i], "body")
            /\ \E j \in DOMAIN raw.request : RumaAttrs(raw.request[j]) = <<>>}}
    \cup
    {"GET endpoints can't have body fields" : i \in
        {i \in DOMAIN raw.request :
            /\ raw.metadata.method = "GET"
            /\ HasWord(raw.request[i], "body") \/ RumaAttrs(raw.request[i]) = <<>>}}

\* C7: schema errors are accumulated: the error compilation returns holds an
\* entry for every rule the endpoint description violates.
C7_AllViolationsReported ==
    stage # "parsed"
    => \A msg \in ViolatedRules(raw_api) :
          \E k \in DOMAIN api.error : api.error[k].msg = msg

\* The kind the classification rules give a field with these ruma_api
\* attributes (at most one).
ExpectedKind(ruma_attrs) ==
    IF ruma_attrs = <<>> THEN "Body"
    ELSE IF ruma_attrs[1].meta = "namevalue" THEN "Header"
    ELSE CASE ruma_attrs[1].name = "body"  -> "NewtypeBody"
           [] ruma_attrs[1].name = "path"  -> "Path"
           [] ruma_attrs[1].name = "query" -> "Query"
           [] OTHER -> "none"

\* C8: a field's kind is the function of its kind annotations the classifier
\* rules give: none is Body, body is NewtypeBody, path is Path, query is Query,
\* header = name is Header(name); a name/value pair with another key and a
\* second kind annotation on a field are errors; every classified field has
\* exactly one kind.
C8_FieldClassification ==
    LET raw == raw_api.request
        req == RequestTryFrom(raw)
    IN  stage # "parsed"
        => /\ (\E i \in DOMAIN raw : Len(RumaAttrs(raw[i])) > 1)
              => (~req.ok /\ api.outcome = "err")
           /\ (\E i \in DOMAIN raw : \E k \in DOMAIN raw[i].attrs :
                   raw[i].attrs[k].meta = "namevalue" /\ raw[i].attrs[k].name # "header")
              => (~req.ok /\ api.outcome = "err")
           /\ req.ok
              => /\ Len(req.fields) = Len(raw)
                 /\ \A i \in DOMAIN raw :
                       /\ req.fields[i].field.ident = raw[i].ident
                       /\ req.fields[i].kind \in RequestFieldKinds
                       /\ req.fields[i].kind = ExpectedKind(RumaAttrs(raw[i]))
                       /\ req.fields[i].kind = "Header"
                          => req.fields[i].header = RumaAttrs(raw[i])[1].value
           /\ api.outcome = "ok" => api.request = req.fields

\* A header field and a path field were classified.
C8_Witness ==
    /\ stage = "api_ok"
    /\ Len(api.request) = 2
    /\ api.request[1].kind = "Header"
    /\ api.request[1].header = "ACCEPT"
    /\ api.request[2].kind = "Path"

\* No two Header fields of the request name the same header.
DistinctHeaderNames(fields) ==
    \A i, j \in DOMAIN fields :
        (i # j /\ fields[i].kind = "Header" /\ fields[j].kind = "Header")
        => fields[i].header # fields[j].header

ValueOf(fields, values, ident) == values[IndexOf(fields, ident)]

\* C11: the path of the encoded request has one segment per template segment,
\* in template order: a literal segment as it is written, a placeholder segment
\* replaced by the (percent-encoded) value of the Path field of that name,
\* whatever the order in which the Path fields are declared.
C11_PathInTemplateOrder ==
    (stage = "request_encoded" /\ has_path_fields(api.request))
    => LET template == Split(Tail1(api.path), "/")
           built    == Split(Tail1(http_request.path), "/")
       IN  /\ Len(built) = Len(template)
           /\ \A k \in DOMAIN template :
                 built[k] = IF StartsWith(template[k], ":")
                            THEN PercentEncode(ValueOf(api.request, request,
                                                       Tail1(template[k])))
                            ELSE template[k]

\* Path fields a and b, declared in that order, fill the template /:b/:a.
C11_Witness ==
    /\ stage = "request_encoded"
    /\ api.path = <<"/", ":", "b", "/", ":", "a">>
    /\ request = <<<<"v">>, <<"w", "/">>>>
    /\ http_request.path = <<"/", "w", "%", "2", "F", "/", "v">>

\* C12: converting an http::Response whose status is not a success returns the
\* error made of exactly that status, whatever its body and headers are: the
\* body is not deserialised and no header is looked up.
C12_StatusShortCircuit ==
    (stage = "response_answered" /\ http_response.status \notin 200..299)
    => response_out = StatusError(http_response.status)

\* A 404 whose body is no JSON and which lacks the header of a header field
\* was answered with the status error.
C12_Witness ==
    /\ stage = "response_answered"
    /\ http_response.status = 404
    /\ http_response.body = NotJson
    /\ Len(api.response) = 2
    /\ api.response[1].kind = "Header"
    /\ api.response[2].kind = "Body"
    /\ ~HeaderGet(http_response.headers, IdentString(api.response[1].field.ident)).some
    /\ response_out = StatusError(404)

\* The header fields of a response whose header the incoming headers lack.
MissingResponseHeaders(fields, headers) ==
    {i \in DOMAIN fields :
        /\ fields[i].kind = "Header"
        /\ ~HeaderGet(headers, IdentString(fields[i].field.ident)).some}

\* The header fields of a request whose header the incoming headers lack.
MissingRequestHeaders(fields, headers) ==
    {i \in DOMAIN fields :
        fields[i].kind = "Header" /\ ~HeaderGet(headers, fields[i].header).some}

\* C13: when the incoming headers lack the header of a Header field (and the
\* message is otherwise as it was sent), decoding returns an error that says
\* the header is missing and names it, for a request and for a response alike;
\* it neither succeeds nor ends any other way.
C13_MissingHeaderReported ==
    /\ (/\ stage = "request_answered"
        /\ http_request.path = SetRequestPath(api, artifact, request)
        /\ http_request.body = CreateHttpRequestBody(api, request)
        /\ MissingRequestHeaders(api.request, http_request.headers) # {})
       => /\ request_out.outcome = "err"
          /\ request_out.error = "missing_field"
          /\ \E i \in MissingRequestHeaders(api.request, http_request.headers) :
                request_out.name = api.request[i].header
    /\ (/\ stage = "response_answered"
        /\ IsSuccess(http_response.status)
        /\ http_response.body = TrySerializeResponseBody(api, response)
        /\ MissingResponseHeaders(api.response, http_response.headers) # {})
       => /\ response_out.outcome = "err"
          /\ response_out.error = "missing_field"
          /\ \E i \in MissingResponseHeaders(api.response, http_response.headers) :
                response_out.name = IdentString(api.response[i].field.ident)

\* C14: when the header of a Header field is there but its value is no string
\* (and the message is otherwise as it was sent), decoding returns an error
\* that is not the one returned for a missing header.
C14_UnparsableHeaderDistinct ==
    (/\ stage = "request_answered"
     /\ http_request.path = SetRequestPath(api, artifact, request)
     /\ http_request.body = CreateHttpRequestBody(api, request)
     /\ MissingRequestHeaders(api.request, http_request.headers) = {}
     /\ FirstHeaderFailure(api.request, http_request.headers) # 0)
    => /\ request_out.outcome = "err"
       /\ request_out.error # "missing_field"

\* C15: without body fields and without a newtype body field the encoded
\* request and the encoded response have a body of no bytes, and the result of
\* decoding does not depend on the body received.
C15_EmptyBodyMode ==
    /\ (/\ stage = "request_encoded"
        /\ ~has_body_fields(api.request)
        /\ ~newtype_body_field(api.request).some)
       => http_request.body = EmptyBytes
    /\ (stage = "response_encoded" /\ ~has_body(api.response))
       => http_response.body = EmptyBytes
    /\ (/\ stage = "request_answered"
        /\ ~has_body_fields(api.request)
        /\ ~newtype_body_field(api.request).some)
       => request_out = DecodeRequestResult(api, artifact,
                                            [http_request EXCEPT !.body = EmptyBytes])
    /\ (stage = "response_answered" /\ ~has_body(api.response))
       => response_out = DecodeResponseResult(api,
                                              [http_response EXCEPT !.body = EmptyBytes])

\* C16: every encoded request and every encoded response has the content type
\* application/json, whatever its body and its header fields.
C16_JsonContentType ==
    /\ stage = "request_encoded"
       => HeaderGet(http_request.headers, "CONTENT_TYPE") = Some(JsonContentType)
    /\ stage = "response_encoded"
       => HeaderGet(http_response.headers, "CONTENT_TYPE") = Some(JsonContentType)

C18_HeaderDecodedBeforeBody ==
    (/\ stage = "response_answered"
     /\ IsSuccess(http_response.status)
     /\ MissingResponseHeaders(api.response, http_response.headers) # {}
     /\ has_body(api.response)
     /\ http_response.body \in {NotJson, EmptyBytes})
    => /\ response_out.outcome # "ok"
       /\ response_out.error \in {"header", "missing_field"}

\* C19: placeholders are the segments that begin with ':'; a ':' elsewhere in
\* a segment is literal text.  So no template that begins with '/', has as
\* many segments beginning with ':' as the request has Path fields, and names
\* a Path field with each of them, is rejected.
C19_MarkerInsideSegmentIsLiteral ==
    (/\ stage \in {"emitted", "tokens_panic"}
     /\ StartsWith(api.path, "/")
     /\ Len(Placeholders(api.path)) = path_field_count(api.request)
     /\ \A k \in DOMAIN Placeholders(api.path) :
           path_field(api.request, Placeholders(api.path)[k]).some)
    => artifact.emitted

\* C20: a field of the generated struct Request is the declared field without
\* its serde attributes and with every other attribute, in the original
\* order; its name is unchanged.
C20_StripSerdeAttrs ==
    artifact.emitted
    => /\ Len(artifact.request_struct) = Len(api.request)
       /\ \A i \in DOMAIN api.request :
             /\ artifact.request_struct[i].ident = api.request[i].field.ident
             /\ artifact.request_struct[i].attrs =
                   SelectSeq(api.request[i].field.attrs, LAMBDA attr : attr.name # "serde")

\* C21: converting an http::Request into a Request always returns, a Request
\* or an error, also when the path of the http::Request has fewer segments
\* than the path template; it never panics.
C21_DecodeRequestTotal ==
    stage = "request_answered" => request_out.outcome \in {"ok", "err"}

\* The placeholder positions of the template that initialise the field.
BoundPositions(art, ident) ==
    {k \in DOMAIN art.parse_path : art.parse_path[k].ident = ident}

\* C22: in an emitted artifact every Path field of the request is initialised
\* from exactly one placeholder position of the template; a template that
\* repeats one placeholder and leaves a Path field without one is rejected.
C22_PathFieldsBoundOnce ==
    (artifact.emitted /\ has_path_fields(api.request))
    => \A i \in DOMAIN api.request :
          api.request[i].kind = "Path"
          => Cardinality(BoundPositions(artifact, api.request[i].field.ident)) = 1

====
